---- MODULE Spec2Model ----
(***************************************************************************)
(* Verification model of fastnbt / fastanvil.                              *)
(*                                                                         *)
(*   fastnbt/src/borrow.rs       borrowed array views and their iterators  *)
(*   fastnbt/src/value.rs        Value / BorrowedValue untagged decode     *)
(*   fastanvil/src/java/pre18.rs JavaChunk (block, biome, surface_height)  *)
(*   fastanvil/src/types.rs      the older Chunk (block, height_of, ...)   *)
(*                                                                         *)
(* TLC integers are 32 bits wide, so a 64-bit word is never held as one    *)
(* integer: an i64 element is a tuple of limbs, a packed word is a tuple   *)
(* of 64 bits, least significant first.                                    *)
(***************************************************************************)
EXTENDS Integers, Sequences, FiniteSets, TLC

VARIABLES
    view,        \* borrow.rs: the ByteArray / IntArray / LongArray view
    iters,       \* borrow.rs: the iterators created from the view so far
    wire,        \* value.rs: the scalars on the wire, in order
    decoded,     \* value.rs: the values decoded so far
    chunk,       \* the decoded chunk: its fields that never change
    decoded_block,   \* types.rs: a decoded Block, its name and properties
    packed_values,   \* what the chunk's packed arrays hold, once unpacked
    done,        \* pre18.rs: Pre18Blockstates.done of each section
    unpacked,    \* pre18.rs: Pre18Blockstates.unpacked of each section
    lazy_heightmap,  \* pre18.rs: Level.lazy_heightmap
    sec_map,     \* types.rs: Level.sec_map
    unpacked_states,   \* types.rs: Section.unpacked_states of each section
    unpacked_motion_blocking,   \* types.rs: Heightmaps.unpacked_motion_blocking
    last,        \* the last call on the chunk: its arguments, result and work done
    aborted      \* a call on the chunk panicked

borrowVars == <<view, iters>>

valueVars == <<wire, decoded>>

nbtVars == <<borrowVars, valueVars>>

chunkVars == <<chunk, packed_values, decoded_block>>

javaVars == <<done, unpacked, lazy_heightmap>>

oldVars == <<sec_map, unpacked_states, unpacked_motion_blocking>>

anvilVars == <<chunkVars, javaVars, oldVars, last, aborted>>

vars == <<view, iters, wire, decoded, chunk, packed_values, decoded_block,
          done, unpacked, lazy_heightmap,
          sec_map, unpacked_states, unpacked_motion_blocking, last, aborted>>

\* Option<T>: None is the empty tuple, Some(v) the one-element tuple.
None == <<>>

Some(v) == <<v>>

Unwrap(o) == o[1]

Min(S) == CHOOSE m \in S : \A n \in S : m <= n

Max(S) == CHOOSE m \in S : \A n \in S : m >= n

RECURSIVE Pow2(_)
Pow2(n) == IF n = 0 THEN 1 ELSE 2 * Pow2(n - 1)

\* No call made yet.  args are the call's arguments, result its return value
\* as an Option, scanned whether it ran the calculate height scan, unpacks the
\* sections whose packed block states it unpacked.
NoCall == [op |-> "none", args |-> <<>>, result |-> None, scanned |-> FALSE, unpacks |-> {}]

Call(op, args, result, scanned, unpacks) ==
    [op |-> op, args |-> args, result |-> result, scanned |-> scanned, unpacks |-> unpacks]

\* The state of the JavaChunk variables when no JavaChunk is decoded.
NoJava ==
    /\ done = <<>>
    /\ unpacked = <<>>
    /\ lazy_heightmap = None

\* The state of the older Chunk's variables when no such chunk is decoded.
NoOld ==
    /\ sec_map = <<>>
    /\ unpacked_states = <<>>
    /\ unpacked_motion_blocking = None

\* The state of the chunk variables when no chunk is decoded.
NoChunk ==
    /\ chunk = [kind |-> "None"]
    /\ decoded_block = None
    /\ packed_values = <<>>
    /\ NoJava
    /\ NoOld
    /\ last = NoCall
    /\ aborted = FALSE

\* The state of the fastnbt variables when nothing is decoded.
NoNbt ==
    /\ view = [kind |-> "ByteArray", data |-> <<>>]
    /\ iters = <<>>
    /\ wire = [target |-> "Value", scalars |-> <<>>]
    /\ decoded = <<>>

(***************************************************************************)
(* fastnbt/src/borrow.rs                                                   *)
(***************************************************************************)

\* Longest byte range of a view.
MaxLen == 17

\* Most iterators alive at once.
MaxIters == 2

\* Buffers the views are taken over: byte k (from 0) of buffer p.
BufferIds == {1, 2, 3}

BufferByte(p, k) ==
    CASE p = 1 -> (k * 37 + 1) % 256
      [] p = 2 -> 255 - ((k * 3) % 256)
      [] OTHER -> IF k % 4 = 0 THEN 128 ELSE 0

ArrayKinds == {"ByteArray", "IntArray", "LongArray"}

\* Width in bytes of one element: i8, i32, i64.
ElemWidth(kind) ==
    CASE kind = "ByteArray" -> 1
      [] kind = "IntArray" -> 4
      [] OTHER -> 8

\* u8 as i8.
AsI8(b) == IF b >= 128 THEN b - 256 ELSE b

\* ReadBytesExt::read_i8 on the first byte of the slice.
read_i8(bs) == AsI8(bs[1])

\* A read that takes the four bytes least significant first.
read_i32_le(bs) == AsI8(bs[4]) * 16777216 + bs[3] * 65536 + bs[2] * 256 + bs[1]

\* ReadBytesExt::read_i32::<BigEndian> on the first four bytes of the slice.
read_i32(bs) == AsI8(bs[1]) * 16777216 + bs[2] * 65536 + bs[3] * 256 + bs[4]

\* ReadBytesExt::read_i64::<BigEndian> on the first eight bytes of the slice.
\* The i64 is held as <<high 32 bits (signed), bits 31..16, bits 15..0>>.
read_i64(bs) ==
    <<read_i32(bs), bs[5] * 256 + bs[6], bs[7] * 256 + bs[8]>>

ReadElem(kind, bs) ==
    CASE kind = "ByteArray" -> read_i8(bs)
      [] kind = "IntArray" -> read_i32(bs)
      [] OTHER -> read_i64(bs)

DropFirst(bs, n) == SubSeq(bs, n + 1, Len(bs))

\* An iter() that starts one element past the view's origin.
iter_skip(v) ==
    [kind |-> v.kind,
     data |-> DropFirst(v.data, ElemWidth(v.kind)),
     yielded |-> <<>>,
     ended |-> FALSE]

\* ByteArray::iter / IntArray::iter / LongArray::iter: the iterator wraps a
\* copy of the view (the structs are Copy), so it holds its own slice.
\* yielded and ended record what next() has returned on this iterator.
iter(v) == [kind |-> v.kind, data |-> v.data, yielded |-> <<>>, ended |-> FALSE]

\* The slice left behind by a read that came up short: Read::read_exact for
\* &[u8] leaves the slice as it was or advances it to its end, depending on
\* the standard library the crate is built with.
ShortReadSlices(bs) == {bs, <<>>}

\* ByteIter::next / IntIter::next / LongIter::next with `rest` the slice a
\* short read leaves: read one element and advance, .ok() turns the short read
\* into None.
next(it, rest) ==
    IF Len(it.data) >= ElemWidth(it.kind)
    THEN [it EXCEPT !.data = DropFirst(it.data, ElemWidth(it.kind)),
                    !.yielded = Append(it.yielded, ReadElem(it.kind, it.data)),
                    !.ended = FALSE]
    ELSE [it EXCEPT !.data = rest, !.ended = TRUE]

(***************************************************************************)
(* fastnbt/src/value.rs                                                    *)
(***************************************************************************)

\* The scalar tags of the wire format.
WireKinds == {"Byte", "Short", "Int", "Long", "Float", "Double"}

\* Magnitudes carried by the scalars (a float carries the same magnitude as a
\* floating-point number).
Magnitudes == {-1, 0, 100}

\* Scalars decoded in one run.
ScalarsPerRun == 2

\* The two dynamic value types.
Targets == {"Value", "BorrowedValue"}

\* The decoder hands a scalar of each wire tag to the visitor method of its
\* own width; under #[serde(untagged)] that call is buffered as this content.
ContentOf(kind) ==
    CASE kind = "Byte" -> "I8"
      [] kind = "Short" -> "I16"
      [] kind = "Int" -> "I32"
      [] kind = "Long" -> "I64"
      [] kind = "Float" -> "F32"
      [] OTHER -> "F64"

IntContents == {"I8", "I16", "I32", "I64"}

FloatContents == {"F32", "F64"}

\* serde::de::Visitor: a visitor that implements the methods in `methods`
\* takes content c if it implements visit_<c>, or, for i8/i16/i32, if it
\* implements visit_i64, to which the default methods forward.
VisitorTakes(methods, c) ==
    \/ c \in methods
    \/ c \in {"I8", "I16", "I32"} /\ "I64" \in methods

\* strict_i8: deserialize_i8 with a visitor that implements visit_i8 only.
strict_i8(c) == c \in IntContents /\ VisitorTakes({"I8"}, c)

\* strict_i16: deserialize_i16 with a visitor that implements visit_i16 only.
strict_i16(c) == c \in IntContents /\ VisitorTakes({"I16"}, c)

\* strict_i32: deserialize_i32 with a visitor that implements visit_i32 only.
strict_i32(c) == c \in IntContents /\ VisitorTakes({"I32"}, c)

\* Variants of Value and of BorrowedValue in declaration order.
Variants(target) ==
    <<"Byte", "Short", "Int", "Long", "Double", "Float", "String",
      "ByteArray", "IntArray", "LongArray", "List", "Compound">>

\* Whether a variant's deserializer takes buffered content c: the first three
\* go through the strict hooks, Long, Double and Float through serde's own
\* i64, f64 and f32 impls (an integer impl takes every integer content, a
\* float impl every integer and float content), the rest take no scalar.
VariantTakes(variant, c) ==
    CASE variant = "Byte" -> strict_i8(c)
      [] variant = "Short" -> strict_i16(c)
      [] variant = "Int" -> strict_i32(c)
      [] variant = "Long" -> c \in IntContents
      [] variant = "Double" -> c \in IntContents \cup FloatContents
      [] variant = "Float" -> c \in IntContents \cup FloatContents
      [] OTHER -> FALSE

\* #[serde(untagged)]: the first variant, in declaration order, whose
\* deserializer takes the content; an error if none does.
DecodeScalar(target, scalar) ==
    LET c == ContentOf(scalar.kind)
        vs == Variants(target)
        hits == {i \in 1..Len(vs) : VariantTakes(vs[i], c)}
    IN  IF hits = {}
        THEN [variant |-> "Error", payload |-> 0]
        ELSE [variant |-> vs[CHOOSE i \in hits : \A j \in hits : i <= j],
              payload |-> scalar.mag]

Scalars == [kind : WireKinds, mag : Magnitudes]

InitValue ==
    /\ \E t \in Targets, ss \in [1..ScalarsPerRun -> Scalars] :
          wire = [target |-> t, scalars |-> ss]
    /\ decoded = <<>>
    /\ view = [kind |-> "ByteArray", data |-> <<>>]
    /\ iters = <<>>
    /\ NoChunk

\* from_bytes::<Value>(..) / from_bytes::<BorrowedValue>(..) on the next scalar.
Deserialize ==
    /\ Len(decoded) < Len(wire.scalars)
    /\ decoded' = Append(decoded, DecodeScalar(wire.target, wire.scalars[Len(decoded) + 1]))
    /\ UNCHANGED <<wire, borrowVars, anvilVars>>

NextValue == Deserialize

SpecValue == InitValue /\ [][NextValue]_vars

\* C3: every scalar decodes into the variant of exactly its wire kind, and
\* two decoded scalars of different wire kinds never compare equal.
C3_WidthsExact ==
    \A i \in 1..Len(decoded) :
       /\ decoded[i].variant = wire.scalars[i].kind
       /\ \A j \in 1..Len(decoded) :
             wire.scalars[i].kind # wire.scalars[j].kind => decoded[i] # decoded[j]

InitBorrow ==
    /\ \E kind \in ArrayKinds, p \in BufferIds, len \in 0..MaxLen :
          view = [kind |-> kind, data |-> [k \in 1..len |-> BufferByte(p, k - 1)]]
    /\ iters = <<>>
    /\ wire = [target |-> "Value", scalars |-> <<>>]
    /\ decoded = <<>>
    /\ NoChunk

\* let it = view.iter();
ArrayIter ==
    /\ Len(iters) < MaxIters
    /\ iters' = Append(iters, iter(view))
    /\ UNCHANGED <<view, valueVars, anvilVars>>

\* it.next() on the i-th iterator.
IterNext(i) ==
    /\ i \in 1..Len(iters)
    /\ \E rest \in ShortReadSlices(iters[i].data) :
          iters' = [iters EXCEPT ![i] = next(iters[i], rest)]
    /\ UNCHANGED <<view, valueVars, anvilVars>>

NextBorrow ==
    \/ ArrayIter
    \/ \E i \in 1..MaxIters : IterNext(i)

SpecBorrow == InitBorrow /\ [][NextBorrow]_vars

(***************************************************************************)
(* fastanvil: packed bits (crate::PackedBits, bits_per_block,              *)
(* expand_heightmap), the section tower and the biome lookup, which the    *)
(* chunk code calls.                                                       *)
(***************************************************************************)

\* Side of a section and of a chunk's column grid.
Side == 16

\* Cells of one section: 16 * 16 * 16.
SectionCells == 4096

\* Columns of one chunk: 16 * 16.
Columns == 256

\* Bits per entry of a packed height map.
HeightBits == 9

\* Bits in one packed word (i64).
WordBits == 64

\* First data version whose packed words hold whole fields only.
PaddedSince == 2529

\* Bit j (from 0) of the unsigned number v.
BitOf(v, j) == (v \div Pow2(j)) % 2

\* A packed array holding vals[0..n-1] in fields of b bits.  padded: each word
\* holds whole fields only, with unused bits at its top; otherwise a field
\* may straddle two words.  A word is its 64 bits, least significant first.
PackedWords(vals, n, b, padded) ==
    LET per == WordBits \div b
        nwords == IF padded THEN (n + per - 1) \div per
                  ELSE (n * b + WordBits - 1) \div WordBits
    IN  [w \in 1..nwords |-> [k \in 1..WordBits |->
            LET g == (w - 1) * WordBits + (k - 1)
                i == IF padded THEN (w - 1) * per + ((k - 1) \div b) ELSE g \div b
                j == IF padded THEN (k - 1) % b ELSE g % b
            IN  IF i < n /\ (padded => (k - 1) \div b < per)
                THEN BitOf(vals[i], j) ELSE 0]]

\* Bit g (from 0) of a packed bit stream of nwords words; zero past its end.
PackedBit(words, nwords, g) ==
    IF g \div WordBits < nwords
    THEN words[(g \div WordBits) + 1][(g % WordBits) + 1]
    ELSE 0

\* The b-bit field that starts at bit `start` of the stream.
RECURSIVE FieldAt(_, _, _, _)
FieldAt(words, nwords, start, b) ==
    IF b = 0 THEN 0
    ELSE PackedBit(words, nwords, start) + 2 * FieldAt(words, nwords, start + 1, b - 1)

\* Item i under the convention where words hold whole fields only.
PaddedItem(words, nwords, b, i) ==
    LET per == WordBits \div b
    IN  FieldAt(words, nwords, (i \div per) * WordBits + (i % per) * b, b)

\* Item i under the convention where fields straddle words.
StraddlingItem(words, nwords, b, i) == FieldAt(words, nwords, i * b, b)

\* bits_per_block: smallest b with 2^b >= palette length, floored at 4.
bits_per_block(pal_len) ==
    Max({4} \cup {b \in 0..16 : Pow2(b) >= pal_len /\ (b = 0 \/ Pow2(b - 1) < pal_len)})

\* PackedBits::unpack_blockstates: the 4096 palette indices of a section.
unpack_blockstates(packed, bits_per_item) ==
    LET nwords == Len(packed)
    IN  [i \in 0..(SectionCells - 1) |-> PaddedItem(packed, nwords, bits_per_item, i)]

\* expand_heightmap: the 256 packed heights, unpacked under the convention of
\* the data version and raised by the chunk's minimum world-y.
expand_heightmap(hm, ymin, data_version) ==
    LET nwords == Len(hm)
    IN  [i \in 0..(Columns - 1) |->
            ymin + (IF data_version >= PaddedSince
                    THEN PaddedItem(hm, nwords, HeightBits, i)
                    ELSE StraddlingItem(hm, nwords, HeightBits, i))]

\* Biome::try_from(i32): the biome of a raw code, None for an unknown code.
KnownBiomes == 0..50

BiomeTryFrom(code) == IF code \in KnownBiomes THEN Some(code) ELSE None

\* SectionTower::y_min / y_max: the world-y span of the stored sections
\* (0..0 for an empty tower).
y_min(secs) == IF secs = <<>> THEN 0 ELSE Side * Min({secs[i].y : i \in 1..Len(secs)})

y_max(secs) == IF secs = <<>> THEN 0 ELSE Side * (Max({secs[i].y : i \in 1..Len(secs)}) + 1)

\* SectionTower::get_section_for_y: the index of the section whose 16-block
\* span holds world-y, 0 when the tower stores none.
get_section_for_y(secs, y) ==
    LET hits == {i \in 1..Len(secs) : secs[i].y = y \div Side}
    IN  IF hits = {} THEN 0 ELSE Min(hits)

(***************************************************************************)
(* The chunks the model decodes.  A chunk record holds a packed array as   *)
(* the name of its contents, PackedData(name).                             *)
(***************************************************************************)

Block(name) == [name |-> name]

\* crate::java::AIR
AIR == Block("minecraft:air")

STONE == Block("minecraft:stone")

DIRT == Block("minecraft:dirt")

CAVE_AIR == Block("minecraft:cave_air")

CellX(i) == i % Side

CellZ(i) == (i \div Side) % Side

CellY(i) == i \div (Side * Side)

\* Palette indices of a section of stone (index 1): column (0,0) is index 0
\* all the way up, column (15,0) is stone in its lower half only, the top
\* four cells of column (0,15) hold an index past the palette.
StoneCells ==
    [i \in 0..(SectionCells - 1) |->
        CASE CellX(i) = 0 /\ CellZ(i) = 0 -> 0
          [] CellX(i) = 15 /\ CellZ(i) = 0 -> IF CellY(i) <= 7 THEN 1 ELSE 0
          [] CellX(i) = 0 /\ CellZ(i) = 15 -> IF CellY(i) >= 12 THEN 5 ELSE 1
          [] OTHER -> 1]

\* Palette index 2 everywhere but in the top cell of column (0,0).
DirtCells ==
    [i \in 0..(SectionCells - 1) |-> IF i = SectionCells - Columns THEN 0 ELSE 2]

\* A game-maintained height map: 20 everywhere, 3 in column (0,0), 7 in
\* column (15,0).
GameHeights ==
    [i \in 0..(Columns - 1) |-> CASE i = 0 -> 3 [] i = 15 -> 7 [] OTHER -> 20]

\* The palette indices a packed block-state array was written from.
PackedCells(name) == IF name = "stone" THEN StoneCells ELSE DirtCells

PackedData(name) ==
    CASE name \in {"stone", "dirt"} -> PackedWords(PackedCells(name), SectionCells, 4, TRUE)
      [] name = "heights-straddling" -> PackedWords(GameHeights, Columns, HeightBits, FALSE)
      [] OTHER -> PackedWords(GameHeights, Columns, HeightBits, TRUE)

Section(y, block_states, palette) ==
    [y |-> y, block_states |-> block_states, palette |-> palette]

JavaChunks ==
    { \* sections 0 and 1, the lower one without packed states; a height
      \* map in the straddling layout; one biome per column.
      [kind |-> "JavaChunk", data_version |-> 2230, status |-> "full",
       biomes |-> Some([i \in 1..256 |-> IF i = 241 THEN 9999 ELSE i % 7]),
       sections |-> Some(<<Section(0, None, <<STONE>>),
                          Section(1, Some("stone"), <<CAVE_AIR, STONE>>)>>),
       heightmaps |-> Some([motion_blocking |-> Some("heights-straddling")])],
      \* one section; no height maps; a short biome array.
      [kind |-> "JavaChunk", data_version |-> 2730, status |-> "full",
       biomes |-> Some(<<1, 2, 3>>),
       sections |-> Some(<<Section(0, Some("dirt"), <<AIR, STONE, DIRT>>)>>),
       heightmaps |-> None],
      \* no section list, but a height map and 4x4x4 biomes.
      [kind |-> "JavaChunk", data_version |-> 2730, status |-> "empty",
       biomes |-> Some([i \in 1..1024 |-> i % 5]),
       sections |-> None,
       heightmaps |-> Some([motion_blocking |-> Some("heights-padded")])],
      \* an empty tower, a height-map container without motion blocking, an
      \* empty biome array.
      [kind |-> "JavaChunk", data_version |-> 2730, status |-> "empty",
       biomes |-> Some(<<>>),
       sections |-> Some(<<>>),
       heightmaps |-> Some([motion_blocking |-> None])],
      \* sections -1 and 1 with none between, a height map in the padded
      \* layout, 4x4x4 biomes.
      [kind |-> "JavaChunk", data_version |-> 2730, status |-> "full",
       biomes |-> Some([i \in 1..1024 |-> IF i = 17 THEN 9999 ELSE i % 5]),
       sections |-> Some(<<Section(-1, Some("dirt"), <<AIR, STONE, DIRT>>),
                          Section(1, Some("stone"), <<AIR, STONE>>)>>),
       heightmaps |-> Some([motion_blocking |-> Some("heights-padded")])],
      \* one section; no biomes, no height maps.
      [kind |-> "JavaChunk", data_version |-> 2230, status |-> "full",
       biomes |-> None,
       sections |-> Some(<<Section(0, Some("stone"), <<AIR, STONE>>)>>),
       heightmaps |-> None] }

JavaSections(c) == IF c.sections = None THEN <<>> ELSE Unwrap(c.sections)

\* What the packed arrays of a JavaChunk hold: for each section with packed
\* states the buffer unpack_blockstates fills, and for MOTION_BLOCKING the map
\* expand_heightmap returns.  The arrays never change, so neither do these.
JavaPackedValues(c) ==
    LET secs == JavaSections(c)
        hm == IF c.heightmaps = None THEN None ELSE Unwrap(c.heightmaps).motion_blocking
    IN  [states |-> [s \in 1..Len(secs) |->
                        IF secs[s].block_states = None THEN <<>>
                        ELSE unpack_blockstates(PackedData(Unwrap(secs[s].block_states)),
                                                bits_per_block(Len(secs[s].palette)))],
         heights |-> IF hm = None \/ c.sections = None THEN <<>>
                     ELSE expand_heightmap(PackedData(Unwrap(hm)), y_min(secs),
                                           c.data_version)]

\* [0; 16 * 16 * 16]
ZeroCells == [i \in 0..(SectionCells - 1) |-> 0]

(***************************************************************************)
(* fastanvil/src/java/pre18.rs                                             *)
(***************************************************************************)

HeightModes == {"Trust", "Calculate"}

\* Names the height scan does not count as a surface.
AirNames == {"minecraft:air", "minecraft:cave_air"}

\* Vec::get / slice::get with a 0-based index.
Get(seq, i) == IF i >= 0 /\ i < Len(seq) THEN Some(seq[i + 1]) ELSE None

\* A state() that unpacks on every call and never sets done.
state_redo(pv, s, dn, up, x, sec_y, z) ==
    LET state_index == (sec_y * 16 * 16) + z * 16 + x
    IN  [index |-> pv.states[s][state_index], done |-> FALSE, unpacked |-> pv.states[s]]

\* Pre18Blockstates::state on section s: unpack on the first call, then read
\* the cell.  pv are the chunk's packed values, dn and up the fields done and
\* unpacked of its sections.  Returns the palette index read and the two
\* fields of the section after the call.
state(pv, s, dn, up, x, sec_y, z) ==
    LET buf == IF ~dn[s] THEN pv.states[s] ELSE up[s]
        state_index == (sec_y * 16 * 16) + z * 16 + x
    IN  [index |-> buf[state_index], done |-> TRUE, unpacked |-> buf]

\* A block() that reads the palette of a section without packed states.
java_block_palette(c, pv, dn, up, x, y, z) ==
    LET secs == JavaSections(c)
        s == get_section_for_y(secs, y)
    IN  IF c.sections = None \/ s = 0
        THEN [result |-> None, done |-> dn, unpacked |-> up, unpacks |-> {}]
        ELSE IF secs[s].block_states = None
        THEN [result |-> Get(secs[s].palette, 0), done |-> dn, unpacked |-> up,
              unpacks |-> {}]
        ELSE LET sec_y == y - secs[s].y * 16
                 st == state(pv, s, dn, up, x, sec_y, z)
             IN  [result |-> Get(secs[s].palette, st.index),
                  done |-> [dn EXCEPT ![s] = st.done],
                  unpacked |-> [up EXCEPT ![s] = st.unpacked],
                  unpacks |-> IF dn[s] THEN {} ELSE {s}]

\* JavaChunk::block.  Returns the block and the fields done / unpacked of the
\* sections after the call; unpacks holds the section it unpacked, if any.
java_block(c, pv, dn, up, x, y, z) ==
    LET secs == JavaSections(c)
        s == get_section_for_y(secs, y)
    IN  IF c.sections = None \/ s = 0
        THEN [result |-> None, done |-> dn, unpacked |-> up, unpacks |-> {}]
        ELSE IF secs[s].block_states = None
        THEN [result |-> Some(AIR), done |-> dn, unpacked |-> up, unpacks |-> {}]
        ELSE LET sec_y == y - secs[s].y * 16
                 st == state(pv, s, dn, up, x, sec_y, z)
             IN  [result |-> Get(secs[s].palette, st.index),
                  done |-> [dn EXCEPT ![s] = st.done],
                  unpacked |-> [up EXCEPT ![s] = st.unpacked],
                  unpacks |-> IF dn[s] THEN {} ELSE {s}]

\* JavaChunk::y_range
java_y_range(c) ==
    IF c.sections = None THEN [start |-> 0, end |-> 0]
    ELSE [start |-> y_min(Unwrap(c.sections)), end |-> y_max(Unwrap(c.sections))]

\* A biome() that reads the per-column layout x-major.
java_biome_xz(c, x, y, z) ==
    IF c.biomes = None THEN [panic |-> FALSE, result |-> None]
    ELSE LET biomes == Unwrap(c.biomes)
         IN  IF Len(biomes) = 16 * 16
             THEN [panic |-> FALSE, result |-> BiomeTryFrom(biomes[(x * 16 + z) + 1])]
             ELSE LET range == java_y_range(c)
                  IN  IF range.start > range.end - 1
                      THEN [panic |-> TRUE, result |-> None]
                      ELSE LET clamped == Max({range.start, Min({y, range.end - 1})})
                               y_shifted == clamped - range.start
                               i == (z \div 4) * 4 + (x \div 4) + (y_shifted \div 4) * 16
                               biome == Get(biomes, i)
                           IN  [panic |-> FALSE,
                                result |-> IF biome = None THEN None
                                           ELSE BiomeTryFrom(Unwrap(biome))]

\* JavaChunk::biome.  Ord::clamp panics when its lower bound exceeds its upper
\* bound.
java_biome(c, x, y, z) ==
    IF c.biomes = None THEN [panic |-> FALSE, result |-> None]
    ELSE LET biomes == Unwrap(c.biomes)
         IN  IF Len(biomes) = 16 * 16
             THEN [panic |-> FALSE, result |-> BiomeTryFrom(biomes[(z * 16 + x) + 1])]
             ELSE LET range == java_y_range(c)
                  IN  IF range.start > range.end - 1
                      THEN [panic |-> TRUE, result |-> None]
                      ELSE LET clamped == Max({range.start, Min({y, range.end - 1})})
                               y_shifted == clamped - range.start
                               i == (z \div 4) * 4 + (x \div 4) + (y_shifted \div 4) * 16
                               biome == Get(biomes, i)
                           IN  [panic |-> FALSE,
                                result |-> IF biome = None THEN None
                                           ELSE BiomeTryFrom(Unwrap(biome))]

\* Whether the scan of JavaChunk::recalculate_heightmap stops at loop index i
\* of column (x, z): the block at y - 1, y = y_end - i, exists and is not air.
java_scan_stops(c, pv, dn, up, x, z, i) ==
    LET y == java_y_range(c).end - i
        block == java_block(c, pv, dn, up, x, y - 1, z).result
    IN  block # None /\ Unwrap(block).name \notin AirNames

\* One column of the scan: `for i in y_range.clone() { let y = y_end - i; ... }`
\* yields the y of the first i it stops at, 0 when the loop ends without one.
java_scan_column(c, pv, dn, up, x, z) ==
    LET y_range == java_y_range(c)
        scan[i \in y_range.start..y_range.end] ==
            IF i = y_range.end THEN 0
            ELSE IF java_scan_stops(c, pv, dn, up, x, z, i) THEN y_range.end - i
            ELSE scan[i + 1]
    IN  scan[y_range.start]

\* The section fields after the scan: it unpacks every section with packed
\* states from which some column reads a cell before it stops.
java_scan_unpacks(c, pv, dn, up) ==
    LET secs == JavaSections(c)
        y_range == java_y_range(c)
    IN  {s \in 1..Len(secs) :
            /\ secs[s].block_states # None
            /\ ~dn[s]
            /\ \E i \in y_range.start..(y_range.end - 1) :
                  /\ get_section_for_y(secs, (y_range.end - i) - 1) = s
                  /\ \E k \in 0..(Columns - 1) :
                        \A j \in y_range.start..(i - 1) :
                           ~java_scan_stops(c, pv, dn, up, k % 16, k \div 16, j)}

\* JavaChunk::recalculate_heightmap.  Returns the cache it writes (None when
\* it panics before writing), the section fields after it, whether it ran
\* the scan and the sections it unpacked.
java_recalculate_heightmap(c, pv, dn, up, mode) ==
    LET hm == IF c.heightmaps = None THEN None ELSE Unwrap(c.heightmaps).motion_blocking
        secs == JavaSections(c)
    IN  IF mode = "Trust" /\ hm # None
        THEN IF c.sections = None
             THEN [panic |-> TRUE, cache |-> None, done |-> dn, unpacked |-> up,
                   scanned |-> FALSE, unpacks |-> {}]
             ELSE [panic |-> FALSE, cache |-> Some(pv.heights),
                   done |-> dn, unpacked |-> up, scanned |-> FALSE, unpacks |-> {}]
        ELSE [panic |-> FALSE,
              cache |-> Some([k \in 0..(Columns - 1) |->
                                java_scan_column(c, pv, dn, up, k % 16, k \div 16)]),
              done |-> [s \in 1..Len(secs) |->
                           dn[s] \/ s \in java_scan_unpacks(c, pv, dn, up)],
              unpacked |-> [s \in 1..Len(secs) |->
                               IF s \in java_scan_unpacks(c, pv, dn, up)
                               THEN pv.states[s] ELSE up[s]],
              scanned |-> TRUE,
              unpacks |-> java_scan_unpacks(c, pv, dn, up)]

\* Arguments of the calls the model makes.
QueryXZ == {<<0, 0>>, <<15, 0>>, <<0, 15>>}

QueryY == {-17, -16, -1, 0, 15, 28, 31, 32}

BiomeY == {-20, 0, 21}

InitJava ==
    /\ chunk \in JavaChunks
    /\ packed_values = JavaPackedValues(chunk)
    /\ decoded_block = None
    /\ done = [s \in 1..Len(JavaSections(chunk)) |-> FALSE]
    /\ unpacked = [s \in 1..Len(JavaSections(chunk)) |-> ZeroCells]
    /\ lazy_heightmap = None
    /\ last = NoCall
    /\ aborted = FALSE
    /\ NoOld
    /\ NoNbt

\* chunk.block(x, y, z)
JavaBlock(x, y, z) ==
    /\ chunk.kind = "JavaChunk" /\ ~aborted
    /\ \E r \in {java_block(chunk, packed_values, done, unpacked, x, y, z)} :
           /\ done' = r.done
           /\ unpacked' = r.unpacked
           /\ last' = Call("block", <<x, y, z>>, r.result, FALSE, r.unpacks)
    /\ UNCHANGED <<chunkVars, lazy_heightmap, aborted, oldVars, nbtVars>>

\* chunk.biome(x, y, z)
JavaBiome(x, y, z) ==
    /\ chunk.kind = "JavaChunk" /\ ~aborted
    /\ \E r \in {java_biome(chunk, x, y, z)} :
           /\ aborted' = r.panic
           /\ last' = Call("biome", <<x, y, z>>, r.result, FALSE, {})
    /\ UNCHANGED <<chunkVars, javaVars, oldVars, nbtVars>>

\* A surface_height that recalculates on every call.
JavaSurfaceHeight_recalculates(mode) ==
    /\ chunk.kind = "JavaChunk" /\ ~aborted
    /\ \E r \in {java_recalculate_heightmap(chunk, packed_values, done, unpacked, mode)} :
          /\ lazy_heightmap' = r.cache
          /\ done' = r.done
          /\ unpacked' = r.unpacked
          /\ aborted' = r.panic
          /\ \E xz \in QueryXZ :
                last' = Call("surface_height", <<xz[1], xz[2], mode>>,
                             IF r.panic THEN None
                             ELSE Some(Unwrap(r.cache)[xz[2] * 16 + xz[1]]),
                             r.scanned, r.unpacks)
    /\ UNCHANGED <<chunkVars, oldVars, nbtVars>>

\* chunk.surface_height(x, z, mode), for the (x, z) of QueryXZ
JavaSurfaceHeight(mode) ==
    /\ chunk.kind = "JavaChunk" /\ ~aborted
    /\ IF lazy_heightmap = None
       THEN \E r \in {java_recalculate_heightmap(chunk, packed_values, done, unpacked, mode)} :
                /\ lazy_heightmap' = r.cache
                /\ done' = r.done
                /\ unpacked' = r.unpacked
                /\ aborted' = r.panic
                /\ \E xz \in QueryXZ :
                      last' = Call("surface_height", <<xz[1], xz[2], mode>>,
                                   IF r.panic THEN None
                                   ELSE Some(Unwrap(r.cache)[xz[2] * 16 + xz[1]]),
                                   r.scanned, r.unpacks)
       ELSE /\ \E xz \in QueryXZ :
                  last' = Call("surface_height", <<xz[1], xz[2], mode>>,
                               Some(Unwrap(lazy_heightmap)[xz[2] * 16 + xz[1]]), FALSE, {})
            /\ UNCHANGED <<lazy_heightmap, done, unpacked, aborted>>
    /\ UNCHANGED <<chunkVars, oldVars, nbtVars>>

\* chunk.recalculate_heightmap(mode)
JavaRecalculateHeightmap(mode) ==
    /\ chunk.kind = "JavaChunk" /\ ~aborted
    /\ \E r \in {java_recalculate_heightmap(chunk, packed_values, done, unpacked, mode)} :
           /\ lazy_heightmap' = IF r.panic THEN lazy_heightmap ELSE r.cache
           /\ done' = r.done
           /\ unpacked' = r.unpacked
           /\ aborted' = r.panic
           /\ last' = Call("recalculate_heightmap", <<mode>>, None, r.scanned, r.unpacks)
    /\ UNCHANGED <<chunkVars, oldVars, nbtVars>>

\* chunk.y_range()
JavaYRange ==
    /\ chunk.kind = "JavaChunk" /\ ~aborted
    /\ last' = Call("y_range", <<>>, Some(java_y_range(chunk)), FALSE, {})
    /\ UNCHANGED <<chunkVars, javaVars, aborted, oldVars, nbtVars>>

\* chunk.status()
JavaStatus ==
    /\ chunk.kind = "JavaChunk" /\ ~aborted
    /\ last' = Call("status", <<>>, Some(chunk.status), FALSE, {})
    /\ UNCHANGED <<chunkVars, javaVars, aborted, oldVars, nbtVars>>

NextJava ==
    \/ \E xz \in QueryXZ, y \in QueryY : JavaBlock(xz[1], y, xz[2])
    \/ \E xz \in QueryXZ, y \in BiomeY : JavaBiome(xz[1], y, xz[2])
    \/ \E mode \in HeightModes : JavaSurfaceHeight(mode)
    \/ \E mode \in HeightModes : JavaRecalculateHeightmap(mode)
    \/ JavaYRange
    \/ JavaStatus

SpecJava == InitJava /\ [][NextJava]_vars

(***************************************************************************)
(* fastanvil/src/types.rs: the older Chunk                                 *)
(***************************************************************************)

\* PackedBits::unpack_into: the 4096 palette indices of a section.
unpack_into(packed, bits_per_item) ==
    LET nwords == Len(packed)
    IN  [i \in 0..(SectionCells - 1) |-> PaddedItem(packed, nwords, bits_per_item, i)]

\* PackedBits::unpack_heights_into: the 256 heights of a packed height map.
unpack_heights_into(packed) ==
    LET nwords == Len(packed)
    IN  [i \in 0..(Columns - 1) |-> PaddedItem(packed, nwords, HeightBits, i)]

\* [0; 256]
ZeroHeights == [i \in 0..(Columns - 1) |-> 0]

\* Levels the scan of Chunk::recalculate_heightmap counts down from.
ScanTop == 256

\* Iterations of that scan: `for i in 0..255`.
ScanSteps == 255

\* i32::to_be_bytes of each code in turn: the Biomes array as the chunk file
\* stores it.
BigEndianBytes(codes) ==
    [k \in 1..(4 * Len(codes)) |->
        LET v == codes[(k - 1) \div 4 + 1]
            b == (k - 1) % 4
        IN  IF b = 0 THEN (v \div 16777216) % 256
            ELSE IF b = 1 THEN (v \div 65536) % 256
            ELSE IF b = 2 THEN (v \div 256) % 256
            ELSE v % 256]

\* A per-column Biomes array (256 codes, 1024 bytes); column x = 15, z = 0
\* holds -1 and column x = 0, z = 15 a code that names no biome.
ColumnBiomes ==
    BigEndianBytes([i \in 1..256 |-> IF i = 16 THEN -1 ELSE IF i = 241 THEN 9999 ELSE i % 7])

\* A 4x4x4-cube Biomes array (1024 codes, 4096 bytes) whose codes change with
\* the layer.
CubeBiomes ==
    BigEndianBytes([i \in 1..1024 |-> ((i - 1) \div 16 + (i - 1)) % 5])

Chunks ==
    { \* sections 14 and 15, the lower one without packed states; a packed
      \* height map.
      [kind |-> "Chunk", data_version |-> 2230, status |-> "full",
       sections |-> Some(<<Section(14, None, <<STONE>>),
                          Section(15, Some("stone"), <<AIR, STONE>>)>>),
       heightmaps |-> Some([motion_blocking |-> Some("heights-padded")]),
       biomes |-> Some(ColumnBiomes),
       old_heightmap |-> None],
      \* one section; a height-map container without motion blocking.
      [kind |-> "Chunk", data_version |-> 2230, status |-> "full",
       sections |-> Some(<<Section(15, Some("dirt"), <<AIR, STONE, DIRT>>)>>),
       heightmaps |-> Some([motion_blocking |-> None]),
       biomes |-> Some(CubeBiomes),
       old_heightmap |-> None],
      \* one section stored twice; no height-map container but a plain height
      \* map.
      [kind |-> "Chunk", data_version |-> 1343, status |-> "full",
       sections |-> Some(<<Section(15, Some("stone"), <<AIR, STONE>>),
                          Section(15, Some("dirt"), <<AIR, STONE, DIRT>>)>>),
       heightmaps |-> None,
       biomes |-> Some(<<0, 0, 0, 1, 0, 0, 0, 2, 0, 0, 0, 3>>),
       old_heightmap |-> Some([i \in 1..256 |-> 64 + (i % 3)])] }

ChunkSections(c) == IF c.sections = None THEN <<>> ELSE Unwrap(c.sections)

\* What the packed arrays of a Chunk hold: for each section with packed
\* states the buffer unpack_into fills, and for MOTION_BLOCKING the buffer
\* unpack_heights_into fills.
ChunkPackedValues(c) ==
    LET secs == ChunkSections(c)
        hm == IF c.heightmaps = None THEN None ELSE Unwrap(c.heightmaps).motion_blocking
    IN  [states |-> [s \in 1..Len(secs) |->
                        IF secs[s].block_states = None THEN <<>>
                        ELSE unpack_into(PackedData(Unwrap(secs[s].block_states)),
                                         bits_per_block(Len(secs[s].palette)))],
         heights |-> IF hm = None THEN <<>> ELSE unpack_heights_into(PackedData(Unwrap(hm)))]

\* Chunk::calculate_sec_map: each stored section y mapped to the position of
\* the last section that carries it.
calculate_sec_map(c) ==
    LET secs == ChunkSections(c)
    IN  [y \in {secs[i].y : i \in 1..Len(secs)} |->
            Max({i \in 1..Len(secs) : secs[i].y = y})]

\* Chunk::get_section_for_y: the position of the section found (0: none) and
\* sec_map after the call.
chunk_get_section_for_y(c, sm, y) ==
    IF c.sections = None \/ ChunkSections(c) = <<>>
    THEN [section |-> 0, sec_map |-> sm]
    ELSE LET map == IF DOMAIN sm = {} THEN calculate_sec_map(c) ELSE sm
             containing_section_y == y \div 16
             key == AsI8(containing_section_y % 256)
         IN  [section |-> IF key \in DOMAIN map THEN map[key] ELSE 0, sec_map |-> map]

\* Chunk::block.  sm and us are sec_map and the sections' unpacked_states
\* before the call.  `sec.y as usize * 16` overflows for a section below 0,
\* and indexing the 4096-entry buffer past its end panics, after the unpack.
chunk_block(c, pv, sm, us, x, y, z) ==
    LET secs == ChunkSections(c)
        found == chunk_get_section_for_y(c, sm, y)
        s == found.section
    IN  IF s = 0
        THEN [panic |-> FALSE, result |-> None, sec_map |-> found.sec_map,
              unpacked_states |-> us, unpacks |-> {}]
        ELSE IF secs[s].y < 0
        THEN [panic |-> TRUE, result |-> None, sec_map |-> found.sec_map,
              unpacked_states |-> us, unpacks |-> {}]
        ELSE LET sec_y == y - secs[s].y * 16
                 state_index == (sec_y * 16 * 16) + z * 16 + x
             IN  IF us[s] = None /\ secs[s].block_states = None
                 THEN [panic |-> FALSE, result |-> None, sec_map |-> found.sec_map,
                       unpacked_states |-> [us EXCEPT ![s] = Some(ZeroCells)],
                       unpacks |-> {}]
                 ELSE LET buf == IF us[s] = None THEN pv.states[s] ELSE Unwrap(us[s])
                      IN  IF state_index >= SectionCells
                          THEN [panic |-> TRUE, result |-> None,
                                sec_map |-> found.sec_map,
                                unpacked_states |-> [us EXCEPT ![s] = Some(buf)],
                                unpacks |-> IF us[s] = None THEN {s} ELSE {}]
                          ELSE
                          [panic |-> FALSE,
                           result |-> Get(secs[s].palette, buf[state_index]),
                           sec_map |-> found.sec_map,
                           unpacked_states |-> [us EXCEPT ![s] = Some(buf)],
                           unpacks |-> IF us[s] = None THEN {s} ELSE {}]


\* Chunk::biome_of: the code is read big-endian from the byte stream, at
\* 4 * ((z / 4) * 4 + x / 4) in a stream of 4096 bytes and at 4 * (z * 16 + x)
\* in one of 1024 bytes; y takes no part.  A read of fewer than four bytes
\* gives nothing.
chunk_biome_of(c, x, y, z) ==
    IF c.biomes = None THEN None
    ELSE LET biomes == Unwrap(c.biomes)
         IN  IF Len(biomes) = 1024 * 4
             THEN LET i == 4 * ((z \div 4) * 4 + (x \div 4))
                      rest == DropFirst(biomes, i)
                  IN  IF Len(rest) < 4 THEN None ELSE BiomeTryFrom(read_i32(rest))
             ELSE IF Len(biomes) = 256 * 4
             THEN LET i == 4 * (z * 16 + x)
                      rest == DropFirst(biomes, i)
                  IN  IF Len(rest) < 4 THEN None ELSE BiomeTryFrom(read_i32(rest))
             ELSE None

\* Chunk::height_of.  umb is unpacked_motion_blocking before the call.
chunk_height_of(c, pv, umb, x, z) ==
    IF c.heightmaps # None
    THEN IF umb = None
         THEN IF Unwrap(c.heightmaps).motion_blocking = None
              THEN [panic |-> FALSE, result |-> None,
                    unpacked_motion_blocking |-> Some(ZeroHeights)]
              ELSE [panic |-> FALSE, result |-> Some(pv.heights[z * 16 + x]),
                    unpacked_motion_blocking |-> Some(pv.heights)]
         ELSE [panic |-> FALSE, result |-> Some(Unwrap(umb)[z * 16 + x]),
               unpacked_motion_blocking |-> umb]
    ELSE IF c.old_heightmap = None
         THEN [panic |-> FALSE, result |-> None, unpacked_motion_blocking |-> umb]
         ELSE IF z * 16 + x >= Len(Unwrap(c.old_heightmap))
         THEN [panic |-> TRUE, result |-> None, unpacked_motion_blocking |-> umb]
         ELSE [panic |-> FALSE, result |-> Some(Unwrap(c.old_heightmap)[(z * 16 + x) + 1]),
               unpacked_motion_blocking |-> umb]

\* unpacked_states once block() has been called on the sections in touched.
chunk_states_after(c, pv, us, touched) ==
    LET secs == ChunkSections(c)
    IN  [s \in 1..Len(secs) |->
            IF us[s] # None \/ s \notin touched THEN us[s]
            ELSE IF secs[s].block_states = None THEN Some(ZeroCells)
            ELSE Some(pv.states[s])]

\* The sections block() is called on for the levels from lvl up to 255.
chunk_sections_from(c, sm, lvl) ==
    {s \in 1..Len(ChunkSections(c)) :
        \E l \in lvl..(ScanTop - 1) : chunk_get_section_for_y(c, sm, l).section = s}

\* Whether the scan of Chunk::recalculate_heightmap breaks at loop index i of
\* column (x, z): the block at y - 1, y = 256 - i, exists and is not air.
\* touched are the sections block() was called on in earlier columns; the
\* column itself has called it on every level above y - 1.
chunk_scan_breaks(c, pv, sm, us, touched, x, z, i) ==
    LET y == ScanTop - i
        before == chunk_states_after(c, pv, us,
                                     touched \cup chunk_sections_from(c, sm, y))
        block == chunk_block(c, pv, sm, before, x, y - 1, z)
    IN  ~block.panic /\ block.result # None /\ Unwrap(block.result).name \notin AirNames

\* One column of the scan: the loop index it breaks at, ScanSteps when it
\* runs to the end.
chunk_scan_column(c, pv, sm, us, touched, x, z) ==
    IF \E i \in 0..(ScanSteps - 1) : chunk_scan_breaks(c, pv, sm, us, touched, x, z, i)
    THEN CHOOSE i \in 0..(ScanSteps - 1) :
            /\ chunk_scan_breaks(c, pv, sm, us, touched, x, z, i)
            /\ \A j \in 0..(i - 1) : ~chunk_scan_breaks(c, pv, sm, us, touched, x, z, j)
    ELSE ScanSteps

\* The scan of Chunk::recalculate_heightmap: `for z in 0..16 { for x in 0..16
\* { for i in 0..255 { ... } } }`, carrying the map and the sections block()
\* has been called on.
chunk_scan(c, pv, sm, us) ==
    LET secs == ChunkSections(c)
        Acc == [map : Seq(0..ScanTop), touched : SUBSET (1..Len(secs))]
        \* the column (x, z) broke at loop index i, or ran to the end
        column[i \in 0..ScanSteps, acc \in Acc] ==
            [map |-> Append(acc.map, IF i = ScanSteps THEN 0 ELSE ScanTop - i),
             touched |-> acc.touched \cup
                         chunk_sections_from(c, sm, (ScanTop - Min({i, ScanSteps - 1})) - 1)]
        xs[x \in 0..16, z \in 0..15, acc \in Acc] ==
            IF x = 16 THEN acc
            ELSE xs[x + 1, z,
                    column[chunk_scan_column(c, pv, sm, us, acc.touched, x, z), acc]]
        zs[z \in 0..16, acc \in Acc] ==
            IF z = 16 THEN acc ELSE zs[z + 1, xs[0, z, acc]]
    IN  zs[0, [map |-> <<>>, touched |-> {}]]

\* Chunk::recalculate_heightmap.  The map is stored only in a height-map
\* container.
chunk_recalculate_heightmap(c, pv, sm, us, umb) ==
    LET scan == chunk_scan(c, pv, sm, us)
    IN  [sec_map |-> chunk_get_section_for_y(c, sm, 0).sec_map,
         unpacked_states |-> chunk_states_after(c, pv, us, scan.touched),
         unpacked_motion_blocking |->
             IF c.heightmaps = None THEN umb
             ELSE Some([k \in 0..(Columns - 1) |-> scan.map[k + 1]]),
         unpacks |-> {s \in scan.touched :
                        us[s] = None /\ ChunkSections(c)[s].block_states # None}]

ChunkY == {100, 238, 239, 240, 252, 255, 2048, 4336}

\* The world-y of the biome queries on the older Chunk.
BiomeOfY == {0, 70, 255}

InitChunk ==
    /\ chunk \in Chunks
    /\ packed_values = ChunkPackedValues(chunk)
    /\ decoded_block = None
    /\ sec_map = <<>>
    /\ unpacked_states = [s \in 1..Len(ChunkSections(chunk)) |-> None]
    /\ unpacked_motion_blocking = None
    /\ last = NoCall
    /\ aborted = FALSE
    /\ NoJava
    /\ NoNbt

\* chunk.block(x, y, z)
ChunkBlock(x, y, z) ==
    /\ chunk.kind = "Chunk" /\ ~aborted
    /\ \E r \in {chunk_block(chunk, packed_values, sec_map, unpacked_states, x, y, z)} :
          /\ sec_map' = r.sec_map
          /\ unpacked_states' = r.unpacked_states
          /\ aborted' = r.panic
          /\ last' = Call("block", <<x, y, z>>, r.result, FALSE, r.unpacks)
    /\ UNCHANGED <<chunkVars, unpacked_motion_blocking, javaVars, nbtVars>>

\* chunk.height_of(x, z)
ChunkHeightOf(x, z) ==
    /\ chunk.kind = "Chunk" /\ ~aborted
    /\ \E r \in {chunk_height_of(chunk, packed_values, unpacked_motion_blocking, x, z)} :
          /\ unpacked_motion_blocking' = r.unpacked_motion_blocking
          /\ aborted' = r.panic
          /\ last' = Call("height_of", <<x, z>>, r.result, FALSE, {})
    /\ UNCHANGED <<chunkVars, sec_map, unpacked_states, javaVars, nbtVars>>

\* chunk.biome_of(x, y, z)
ChunkBiomeOf(x, y, z) ==
    /\ chunk.kind = "Chunk" /\ ~aborted
    /\ \E r \in {chunk_biome_of(chunk, x, y, z)} :
          last' = Call("biome_of", <<x, y, z>>, r, FALSE, {})
    /\ UNCHANGED <<chunkVars, oldVars, aborted, javaVars, nbtVars>>

\* chunk.recalculate_heightmap()
ChunkRecalculateHeightmap ==
    /\ chunk.kind = "Chunk" /\ ~aborted
    /\ \E r \in {chunk_recalculate_heightmap(chunk, packed_values, sec_map,
                                             unpacked_states, unpacked_motion_blocking)} :
          /\ sec_map' = r.sec_map
          /\ unpacked_states' = r.unpacked_states
          /\ unpacked_motion_blocking' = r.unpacked_motion_blocking
          /\ last' = Call("recalculate_heightmap", <<>>, None, TRUE, r.unpacks)
    /\ UNCHANGED <<chunkVars, aborted, javaVars, nbtVars>>

NextChunk ==
    \/ \E xz \in QueryXZ, y \in ChunkY : ChunkBlock(xz[1], y, xz[2])
    \/ \E xz \in QueryXZ : ChunkHeightOf(xz[1], xz[2])
    \/ \E xz \in QueryXZ, y \in BiomeOfY : ChunkBiomeOf(xz[1], y, xz[2])
    \/ ChunkRecalculateHeightmap

SpecChunk == InitChunk /\ [][NextChunk]_vars

(***************************************************************************)
(* fastanvil/src/types.rs: Block::encoded_description.  A string is the    *)
(* sequence of its bytes.                                                  *)
(***************************************************************************)

\* "minecraft:door"
S_door == <<109, 105, 110, 101, 99, 114, 97, 102, 116, 58, 100, 111, 111, 114>>

\* "minecraft:lever"
S_lever == <<109, 105, 110, 101, 99, 114, 97, 102, 116, 58, 108, 101, 118, 101, 114>>

\* "face"
S_face == <<102, 97, 99, 101>>

\* "facing"
S_facing == <<102, 97, 99, 105, 110, 103>>

\* "half"
S_half == <<104, 97, 108, 102>>

\* "waterlogged"
S_waterlogged == <<119, 97, 116, 101, 114, 108, 111, 103, 103, 101, 100>>

\* "floor"
S_floor == <<102, 108, 111, 111, 114>>

\* "north"
S_north == <<110, 111, 114, 116, 104>>

\* "east"
S_east == <<101, 97, 115, 116>>

\* "top"
S_top == <<116, 111, 112>>

\* "true"
S_true == <<116, 114, 117, 101>>

\* "false"
S_false == <<102, 97, 108, 115, 101>>

PropertyKeys == {S_face, S_facing, S_half, S_waterlogged}

PropertyValues(k) ==
    IF k = S_face THEN {S_floor}
    ELSE IF k = S_facing THEN {S_north, S_east}
    ELSE IF k = S_half THEN {S_top}
    ELSE {S_true, S_false}

\* The Block values the model decodes: every map from some of the keys to
\* one of the key's values, under two names.
Blocks ==
    { [name |-> n, properties |-> ps] :
        n \in {S_door, S_lever},
        ps \in UNION { { f \in [D -> UNION {PropertyValues(k) : k \in PropertyKeys}] :
                            \A k \in D : f[k] \in PropertyValues(k) } :
                        D \in SUBSET PropertyKeys } }

\* HashMap::iter visits every entry once, in an order of its own: any
\* arrangement of the keys.
IterOrders(ps) ==
    { o \in [1..Cardinality(DOMAIN ps) -> DOMAIN ps] :
        \A i, j \in 1..Cardinality(DOMAIN ps) : i # j => o[i] # o[j] }

\* Ord for str: byte-wise lexicographic, a proper prefix first.
str_lt(a, b) ==
    \E i \in 1..(Len(b)) :
        /\ i <= Len(a) + 1
        /\ \A j \in 1..(i - 1) : a[j] = b[j]
        /\ i = Len(a) + 1 \/ a[i] < b[i]

\* Ord for (&str, &str): by the first component, then by the second.
pair_lt(p, q) == str_lt(p[1], q[1]) \/ (p[1] = q[1] /\ str_lt(p[2], q[2]))

\* props.sort(): the entries in ascending order.
RECURSIVE sort(_)
sort(props) ==
    IF props = <<>> THEN <<>>
    ELSE LET rest == sort(Tail(props))
             p == Head(props)
             before == SelectSeq(rest, LAMBDA q : pair_lt(q, p))
             after == SelectSeq(rest, LAMBDA q : ~pair_lt(q, p))
         IN  before \o <<p>> \o after

\* The loop over props: id = id + sep + k + "=" + v, sep = "," afterwards.
RECURSIVE join(_, _, _)
join(id, sep, props) ==
    IF props = <<>> THEN id
    ELSE join(id \o sep \o Head(props)[1] \o <<61>> \o Head(props)[2], <<44>>, Tail(props))

\* An encoded_description() that keeps the entries in iteration order.
encoded_description_unsorted(b, order) ==
    LET id == b.name \o <<124>>
        entries == [i \in 1..Len(order) |-> <<order[i], b.properties[order[i]]>>]
        props == SelectSeq(entries, LAMBDA e : e[1] # S_waterlogged)
    IN  join(id, <<>>, props)

\* Block::encoded_description, order being the order in which
\* properties.iter() visits the keys.
encoded_description(b, order) ==
    LET id == b.name \o <<124>>
        entries == [i \in 1..Len(order) |-> <<order[i], b.properties[order[i]]>>]
        props == SelectSeq(entries, LAMBDA e : e[1] # S_waterlogged)
    IN  join(id, <<>>, sort(props))

InitBlock ==
    /\ \E b \in Blocks : decoded_block = Some(b)
    /\ chunk = [kind |-> "None"]
    /\ packed_values = <<>>
    /\ NoJava
    /\ NoOld
    /\ last = NoCall
    /\ aborted = FALSE
    /\ NoNbt

\* block.encoded_description()
EncodedDescription(order) ==
    /\ decoded_block # None
    /\ last' = Call("encoded_description", <<order>>,
                    Some(encoded_description(Unwrap(decoded_block), order)), FALSE, {})
    /\ UNCHANGED <<chunkVars, javaVars, oldVars, aborted, nbtVars>>

NextBlock == \E order \in IterOrders(Unwrap(decoded_block).properties) : EncodedDescription(order)

SpecBlock == InitBlock /\ [][NextBlock]_vars

\* Either chunk implementation.
InitAnvil == InitJava \/ InitChunk

NextAnvil == NextJava \/ NextChunk

SpecAnvil == InitAnvil /\ [][NextAnvil]_vars

\* Reference: the big-endian two's-complement value of a byte string, written
\* as the i8/i32 number, or for eight bytes as the limbs of read_i64.
RECURSIVE BEUnsigned(_)
BEUnsigned(bs) ==
    IF bs = <<>> THEN 0
    ELSE BEUnsigned(SubSeq(bs, 1, Len(bs) - 1)) * 256 + bs[Len(bs)]

RECURSIVE Pow256(_)
Pow256(n) == IF n = 0 THEN 1 ELSE 256 * Pow256(n - 1)

BESigned(bs) ==
    BEUnsigned(Tail(bs)) + Pow256(Len(bs) - 1) * (IF bs[1] >= 128 THEN bs[1] - 256 ELSE bs[1])

BEValue(bs) ==
    IF Len(bs) = 8
    THEN <<BESigned(SubSeq(bs, 1, 4)), BEUnsigned(SubSeq(bs, 5, 6)), BEUnsigned(SubSeq(bs, 7, 8))>>
    ELSE BESigned(bs)

\* The elements a view holds: floor(L / W) of them, the k-th from bytes
\* [k*W, (k+1)*W).
ExpectedElems(v) ==
    LET w == ElemWidth(v.kind)
    IN  [k \in 1..(Len(v.data) \div w) |-> BEValue(SubSeq(v.data, (k - 1) * w + 1, k * w))]

IsPrefix(s, t) == Len(s) <= Len(t) /\ s = SubSeq(t, 1, Len(s))

\* C4: every next() on an iterator over a view of L bytes and element width W
\* yields the next big-endian element or end-of-sequence; the elements yielded
\* are a prefix of the floor(L / W) elements of the view, end-of-sequence comes
\* exactly when all of them have been yielded (trailing bytes are dropped),
\* and after end-of-sequence every later next() yields end-of-sequence again.
C4_IterationTerminates ==
    [][\A i \in 1..Len(iters') :
          /\ IsPrefix(iters'[i].yielded, ExpectedElems(view))
          /\ iters'[i].ended => iters'[i].yielded = ExpectedElems(view)
          /\ (i <= Len(iters) /\ iters'[i] # iters[i]) =>
                \/ /\ ~iters[i].ended
                   /\ Len(iters'[i].yielded) = Len(iters[i].yielded) + 1
                   /\ ~iters'[i].ended
                \/ /\ iters'[i].ended
                   /\ iters'[i].yielded = iters[i].yielded
          /\ (i <= Len(iters) /\ iters[i].ended) => iters'[i].ended]_vars

\* C4 witness: an iterator over a view with trailing bytes has yielded two
\* elements and then end-of-sequence.
C4_Witness ==
    /\ view.kind = "LongArray"
    /\ Len(view.data) % 8 # 0
    /\ \E i \in 1..Len(iters) : iters[i].ended /\ Len(iters[i].yielded) = 2

\* C5: iter() leaves the view unchanged and a fresh iterator starts at the
\* view's first byte, whatever other iterators have done; a next() moves only
\* the iterator it is called on, and an iterator's position is fixed by the
\* number of elements it has itself yielded.
C5_IterRestarts ==
    [][/\ view' = view
       /\ Len(iters') >= Len(iters)
       /\ \A i \in 1..Len(iters') :
             /\ i > Len(iters) =>
                   /\ iters'[i].data = view'.data
                   /\ iters'[i].yielded = <<>>
                   /\ \A j \in 1..Len(iters) : iters'[j] = iters[j]
             /\ (i <= Len(iters) /\ iters'[i] # iters[i]) =>
                   \A j \in 1..Len(iters) : j # i => iters'[j] = iters[j]
             /\ iters'[i].data \in
                   {DropFirst(view.data, ElemWidth(view.kind) * Len(iters'[i].yielded)), <<>>}]_vars

\* C5 witness: one iterator has run to exhaustion and a fresh one, created
\* afterwards, stands at the view's first byte.
C5_Witness ==
    /\ Len(view.data) >= 2 * ElemWidth(view.kind)
    /\ Len(iters) = 2
    /\ iters[1].ended
    /\ iters[2].yielded = <<>>
    /\ iters[2].data = view.data

(***************************************************************************)
(* Properties of the chunk queries                                         *)
(***************************************************************************)

\* The motion-blocking entry of a chunk's height-map container, None when
\* the container or the entry is absent.
MotionBlocking(c) ==
    IF c.heightmaps = None THEN None ELSE Unwrap(c.heightmaps).motion_blocking

\* The positions of the sections whose 16-block span holds world-y.
SectionsHolding(secs, y) ==
    {i \in 1..Len(secs) : 16 * secs[i].y <= y /\ y < 16 * secs[i].y + 16}

\* The sections of the older Chunk that a lookup at world-y y selects: those
\* whose index is y / 16 as the lookup's signed 8-bit key holds it.  Below
\* y = 2048 these are the sections holding y.
SectionsKeyed(secs, y) ==
    LET k == (y \div 16) % 256
    IN  {i \in 1..Len(secs) : secs[i].y = IF k >= 128 THEN k - 256 ELSE k}

\* C1: a block query, or a height query, that repeats the arguments of the
\* call made just before it on the same chunk returns what that call
\* returned, in both chunk implementations.
C1_QueriesIdempotent ==
    [][(/\ last'.op = last.op
        /\ \/ last.op = "block" /\ last'.args = last.args
           \/ /\ last.op \in {"height_of", "surface_height"}
              /\ last'.args[1] = last.args[1]
              /\ last'.args[2] = last.args[2])
       => last'.result = last.result]_vars

\* C2: every JavaChunk::block call completes and returns: nothing when no
\* stored section holds y; the fixed air block when that section has no
\* packed states; otherwise the palette entry at the index stored for cell
\* (sec_y * 16 + z) * 16 + x, nothing when the index is past the palette.
C2_BlockReference ==
    (chunk.kind = "JavaChunk" /\ last.op = "block") =>
        LET x == last.args[1]
            y == last.args[2]
            z == last.args[3]
            secs == JavaSections(chunk)
            holds == SectionsHolding(secs, y)
        IN  /\ ~aborted
            /\ IF holds = {} THEN last.result = None
               ELSE \A i \in holds :
                      IF secs[i].block_states = None THEN last.result = Some(AIR)
                      ELSE LET sec_y == y - 16 * secs[i].y
                               index == PackedCells(Unwrap(secs[i].block_states))
                                            [(sec_y * 16 + z) * 16 + x]
                           IN  last.result = IF index < Len(secs[i].palette)
                                             THEN Some(secs[i].palette[index + 1])
                                             ELSE None

\* A block query below world-y 0 found dirt in a section with a negative
\* vertical index.
C2_Witness ==
    /\ chunk.kind = "JavaChunk"
    /\ last.op = "block"
    /\ last.args[2] < 0
    /\ last.result = Some(DIRT)

\* C6: every JavaChunk::biome call completes, with a biome or with nothing,
\* and never aborts.
C6_BiomeNeverAborts ==
    (chunk.kind = "JavaChunk" /\ last.op = "biome") => ~aborted

\* C7: a height computation in mode Trust (recalculate_heightmap(Trust), or
\* surface_height(x, z, Trust) on an empty cache) completes, runs the scan
\* exactly when the chunk has no motion-blocking height map, and otherwise
\* caches that map raised by the chunk's minimum world-y, of which
\* surface_height returns entry z * 16 + x.
C7_TrustReadsMap ==
    [][(/\ chunk.kind = "JavaChunk"
        /\ \/ last'.op = "recalculate_heightmap" /\ last'.args[1] = "Trust"
           \/ /\ last'.op = "surface_height" /\ last'.args[3] = "Trust"
              /\ lazy_heightmap = None)
       => /\ ~aborted'
          /\ last'.scanned <=> MotionBlocking(chunk) = None
          /\ MotionBlocking(chunk) # None =>
                /\ lazy_heightmap' =
                      Some([k \in 0..(Columns - 1) |->
                               y_min(JavaSections(chunk)) + GameHeights[k]])
                /\ last'.op = "surface_height" =>
                      last'.result = Some(y_min(JavaSections(chunk))
                                          + GameHeights[last'.args[2] * 16 + last'.args[1]])]_vars

\* Whether the block at (x, y, z) exists and is not air.
Solid(x, y, z) ==
    LET block == IF chunk.kind = "JavaChunk"
                 THEN java_block(chunk, packed_values, done, unpacked, x, y, z).result
                 ELSE chunk_block(chunk, packed_values, sec_map, unpacked_states,
                                  x, y, z).result
    IN  block # None /\ Unwrap(block).name \notin AirNames

\* The highest world-y of column (x, z) within lo..(hi - 1) whose block
\* exists and is not air, 0 when there is none.
TopOfColumn(x, z, lo, hi) ==
    IF \E y \in lo..(hi - 1) : Solid(x, y, z)
    THEN CHOOSE y \in lo..(hi - 1) :
            Solid(x, y, z) /\ \A above \in (y + 1)..(hi - 1) : ~Solid(x, above, z)
    ELSE 0

\* C8: after a height scan the computed height of each column is the first
\* world-y, from the top of the chunk's vertical span down to its bottom,
\* whose block exists and is not air, 0 when there is none; the span is
\* y_range() for a JavaChunk and 0..256 for the older Chunk.
C8_ScanFindsTop ==
    (last.op \in {"recalculate_heightmap", "surface_height"} /\ last.scanned) =>
        IF chunk.kind = "JavaChunk"
        THEN \A k \in 0..(Columns - 1) :
                Unwrap(lazy_heightmap)[k] =
                    TopOfColumn(k % 16, k \div 16,
                                java_y_range(chunk).start, java_y_range(chunk).end)
        ELSE unpacked_motion_blocking # None =>
                \A k \in 0..(Columns - 1) :
                   Unwrap(unpacked_motion_blocking)[k] = TopOfColumn(k % 16, k \div 16, 0, ScanTop)

\* C9 as stated: once the height-map cache holds a map, no call on the chunk
\* changes it.
C9_WriteOnce ==
    [][(chunk.kind = "JavaChunk" /\ lazy_heightmap # None)
       => lazy_heightmap' = lazy_heightmap]_vars

\* C9: the height-map cache is empty after construction and holds a map after
\* every surface_height call that completes; once it holds a map, every call
\* other than recalculate_heightmap leaves it as it is and runs no scan.
C9_WriteOnceUnderQueries ==
    /\ (chunk.kind = "JavaChunk" => lazy_heightmap = None)
    /\ []((chunk.kind = "JavaChunk" /\ last.op = "surface_height" /\ ~aborted)
          => lazy_heightmap # None)
    /\ [][(/\ chunk.kind = "JavaChunk"
           /\ lazy_heightmap # None
           /\ last'.op # "recalculate_heightmap")
          => /\ lazy_heightmap' = lazy_heightmap
             /\ ~last'.scanned]_vars

\* A surface_height call in mode Calculate that ran no scan: the cache held
\* the game's map, which differs from the calculated one, and still does.
C9_Witness ==
    /\ chunk.kind = "JavaChunk"
    /\ last.op = "surface_height"
    /\ last.args[3] = "Calculate"
    /\ ~last.scanned
    /\ MotionBlocking(chunk) # None
    /\ Unwrap(lazy_heightmap)[0] = y_min(JavaSections(chunk)) + GameHeights[0]

\* C10: a section's packed states are unpacked at most once.  JavaChunk: an
\* unpack runs only on a section whose done flag is false and sets it; a set
\* flag stays set and its buffer is not written again.  Older Chunk: an
\* unpack runs only on a section whose unpacked_states is empty, and a filled
\* unpacked_states keeps its buffer.  A block query changes these fields, and
\* unpacks, in no section but the one its y selects.
C10_UnpackOnce ==
    [][IF chunk.kind = "JavaChunk"
       THEN \A s \in 1..Len(JavaSections(chunk)) :
              /\ done[s] => done'[s] /\ unpacked'[s] = unpacked[s]
              /\ s \in last'.unpacks <=> ~done[s] /\ done'[s]
              /\ (last'.op = "block" /\ s \notin SectionsHolding(JavaSections(chunk),
                                                               last'.args[2]))
                 => /\ done'[s] = done[s]
                    /\ unpacked'[s] = unpacked[s]
                    /\ s \notin last'.unpacks
       ELSE \A s \in 1..Len(ChunkSections(chunk)) :
              /\ unpacked_states[s] # None => unpacked_states'[s] = unpacked_states[s]
              /\ s \in last'.unpacks => unpacked_states[s] = None /\ unpacked_states'[s] # None
              /\ (last'.op = "block" /\ s \notin SectionsKeyed(ChunkSections(chunk),
                                                             last'.args[2]))
                 => /\ unpacked_states'[s] = unpacked_states[s]
                    /\ s \notin last'.unpacks]_vars

\* A block query read stone from a JavaChunk section without unpacking it:
\* an earlier call had unpacked the section.
C10_Witness ==
    /\ chunk.kind = "JavaChunk"
    /\ last.op = "block"
    /\ last.result = Some(STONE)
    /\ last.unpacks = {}
    /\ \E s \in 1..Len(done) : done[s]

\* C11: a block query on the older Chunk completes; when no stored section
\* holds its y (16 * s <= y < 16 * s + 16) it returns nothing and leaves every
\* section as it was, and otherwise it reads a section that holds y.
C11_LookupBySpan ==
    [][(chunk.kind = "Chunk" /\ last'.op = "block")
       => LET holds == SectionsHolding(ChunkSections(chunk), last'.args[2])
          IN  /\ ~aborted'
              /\ holds = {} => last'.result = None /\ unpacked_states' = unpacked_states
              /\ holds # {} => \E s \in holds : unpacked_states'[s] # None]_vars

\* C12: a JavaChunk::biome call that completes returns the biome of the raw
\* code at entry z * 16 + x when the array has 256 entries, and otherwise at
\* entry (z / 4) * 4 + (x / 4) + (yc / 4) * 16, yc being y clamped into
\* y_range and taken from its start; nothing when the entry is past the array
\* or the code is not a known biome.
C12_BiomeAddressing ==
    (chunk.kind = "JavaChunk" /\ last.op = "biome" /\ ~aborted /\ chunk.biomes # None) =>
        LET x == last.args[1]
            y == last.args[2]
            z == last.args[3]
            biomes == Unwrap(chunk.biomes)
            range == java_y_range(chunk)
            yc == (IF y < range.start THEN range.start
                   ELSE IF y > range.end - 1 THEN range.end - 1 ELSE y) - range.start
            entry == IF Len(biomes) = 256 THEN z * 16 + x
                     ELSE (z \div 4) * 4 + (x \div 4) + (yc \div 4) * 16
        IN  last.result = IF entry >= Len(biomes) THEN None
                          ELSE IF biomes[entry + 1] \in KnownBiomes
                          THEN Some(biomes[entry + 1])
                          ELSE None

\* A biome query above world-y 16 on a chunk whose span starts below 0 read
\* an entry of the 4x4x4 layout.
C12_Witness ==
    /\ chunk.kind = "JavaChunk"
    /\ last.op = "biome"
    /\ ~aborted
    /\ chunk.biomes # None
    /\ Len(Unwrap(chunk.biomes)) = 1024
    /\ java_y_range(chunk).start < 0
    /\ last.args[2] = 21
    /\ last.result # None

\* C13: on a Biomes stream of 1024 or 4096 bytes biome_of returns what
\* JavaChunk::biome returns on the decoded codes for a chunk spanning world-y
\* 0..256, at the same x, y, z; on a stream of any other length it returns
\* nothing.
C13_SameBiome ==
    (chunk.kind = "Chunk" /\ last.op = "biome_of" /\ chunk.biomes # None) =>
        LET bytes == Unwrap(chunk.biomes)
            codes == [k \in 1..(Len(bytes) \div 4) |->
                         BESigned(SubSeq(bytes, 4 * k - 3, 4 * k))]
            decoded_chunk == [kind |-> "JavaChunk", biomes |-> Some(codes),
                              sections |-> Some(<<Section(0, None, <<>>),
                                                  Section(15, None, <<>>)>>)]
        IN  IF Len(bytes) \in {1024, 4096}
            THEN last.result = java_biome(decoded_chunk, last.args[1], last.args[2],
                                          last.args[3]).result
            ELSE last.result = None

\* Reference: a before b in lexicographic byte order.
RECURSIVE LexBefore(_, _)
LexBefore(a, b) ==
    IF b = <<>> THEN FALSE
    ELSE IF a = <<>> THEN TRUE
    ELSE IF Head(a) # Head(b) THEN Head(a) < Head(b)
    ELSE LexBefore(Tail(a), Tail(b))

\* Reference: key=value of the given keys, least key first, joined by ",".
RECURSIVE JoinAscending(_, _)
JoinAscending(ps, keys) ==
    IF keys = {} THEN <<>>
    ELSE LET k == CHOOSE m \in keys : \A n \in keys \ {m} : LexBefore(m, n)
             rest == keys \ {k}
         IN  k \o <<61>> \o ps[k] \o
             (IF rest = {} THEN <<>> ELSE <<44>> \o JoinAscending(ps, rest))

\* C14: encoded_description returns the name, "|", and key=value of every
\* property but waterlogged in ascending key order joined by ",", whatever
\* the order the map is iterated in and whether or not waterlogged is present;
\* minecraft:door with facing north and waterlogged true gives
\* "minecraft:door|facing=north".
C14_Canonical ==
    (decoded_block # None /\ last.op = "encoded_description") =>
        LET b == Unwrap(decoded_block)
            description == Unwrap(last.result)
        IN  /\ description = b.name \o <<124>> \o
                    JoinAscending(b.properties, DOMAIN b.properties \ {S_waterlogged})
            /\ \A o \in IterOrders(b.properties) : encoded_description(b, o) = description
            /\ \A c \in Blocks :
                  (/\ c.name = b.name
                   /\ DOMAIN c.properties \ {S_waterlogged} = DOMAIN b.properties \ {S_waterlogged}
                   /\ \A k \in DOMAIN b.properties \ {S_waterlogged} :
                         c.properties[k] = b.properties[k])
                  => \A o \in IterOrders(c.properties) : encoded_description(c, o) = description
            /\ (b.name = S_door /\ DOMAIN b.properties = {S_facing, S_waterlogged}
                  /\ b.properties[S_facing] = S_north /\ b.properties[S_waterlogged] = S_true)
               => description = <<109, 105, 110, 101, 99, 114, 97, 102, 116, 58, 100, 111, 111, 114, 124, 102, 97, 99, 105, 110, 103, 61, 110, 111, 114, 116, 104>>

\* minecraft:door with {facing: north, waterlogged: true}, waterlogged visited
\* first, was encoded as "minecraft:door|facing=north".
C14_Witness ==
    /\ decoded_block # None
    /\ Unwrap(decoded_block).name = S_door
    /\ DOMAIN Unwrap(decoded_block).properties = {S_facing, S_waterlogged}
    /\ Unwrap(decoded_block).properties[S_facing] = S_north
    /\ Unwrap(decoded_block).properties[S_waterlogged] = S_true
    /\ last.op = "encoded_description"
    /\ last.args[1] = <<S_waterlogged, S_facing>>
    /\ last.result = Some(<<109, 105, 110, 101, 99, 114, 97, 102, 116, 58, 100, 111, 111, 114, 124, 102, 97, 99, 105, 110, 103, 61, 110, 111, 114, 116, 104>>)

====
